---- MODULE Spec2Model ----
(***************************************************************************)
(* Analytics core of the portfolio backtester (src/model.py):              *)
(* PortfolioModel.portfolio_value_from_prices and                          *)
(* PortfolioModel.risk_metrics, driven the way the compare page drives     *)
(* them (src/controller.py compare_page).                                  *)
(*                                                                         *)
(* Numbers.  A Python float is modelled as an extended rational <<n, d>>   *)
(* in lowest terms: d > 0 is the finite number n/d, <<1,0>> is +inf,       *)
(* <<-1,0>> is -inf and <<0,0>> is NaN.  The operations follow IEEE-754    *)
(* for the special values (x/0 = +-inf, 0/0 = NaN, inf-inf = NaN,          *)
(* inf*0 = NaN, every comparison with NaN is false); finite arithmetic is  *)
(* exact, and rounding is modelled only where the code compares a computed *)
(* standard deviation with 0 (MeanRoundsOff).                              *)
(*                                                                         *)
(* Square roots.  std() and math.sqrt(252) are irrational in general, so   *)
(* the three fields built from them (sharpe_ratio, sortino_ratio,          *)
(* volatility_annual) are carried as their signed square                   *)
(* ssq(x) = sign(x) * x^2.  ssq is a strictly increasing bijection of the  *)
(* extended reals that commutes with * and /, so the sign, zero-ness,      *)
(* finiteness, NaN-ness and order of a field are those of its signed       *)
(* square.  max_drawdown is carried as the number itself.                  *)
(***************************************************************************)
EXTENDS Integers, Sequences, FiniteSets, TLC

(***************************************************************************)
(* Extended rational arithmetic (Python / numpy float semantics).          *)
(***************************************************************************)
Abs(x) == IF x < 0 THEN -x ELSE x

Sgn(x) == IF x < 0 THEN -1 ELSE IF x > 0 THEN 1 ELSE 0

RECURSIVE GCD(_, _)
GCD(a, b) == IF b = 0 THEN a ELSE GCD(b, a % b)

\* <<n, d>> in lowest terms with d >= 0; d = 0 encodes +inf, -inf, NaN.
Norm(n, d) ==
    IF d = 0 THEN <<Sgn(n), 0>>
    ELSE LET g == GCD(Abs(n), Abs(d))
             s == IF d < 0 THEN -1 ELSE 1
         IN  <<s * (n \div g), s * (d \div g)>>

NaN == <<0, 0>>
PosInf == <<1, 0>>
NegInf == <<-1, 0>>
Int2Num(k) == <<k, 1>>
Zero == Int2Num(0)
One == Int2Num(1)

IsNaN(x) == x = NaN
IsFinite(x) == x[2] > 0
IsInf(x) == x[2] = 0 /\ x[1] # 0

Neg(x) == <<-x[1], x[2]>>

\* a * b, cross-cancelled before multiplying
Mul(a, b) ==
    IF a[2] = 0 \/ b[2] = 0 THEN Norm(Sgn(a[1]) * Sgn(b[1]), 0)
    ELSE LET g1 == GCD(Abs(a[1]), b[2])
             g2 == GCD(Abs(b[1]), a[2])
         IN  Norm((a[1] \div g1) * (b[1] \div g2), (a[2] \div g2) * (b[2] \div g1))

\* a / b with numpy's outcomes for a zero or infinite divisor
Div(a, b) ==
    IF IsNaN(a) \/ IsNaN(b) THEN NaN
    ELSE IF b[2] = 0 THEN (IF a[2] = 0 THEN NaN ELSE Zero)
    ELSE IF b[1] = 0 THEN Norm(Sgn(a[1]), 0)
    ELSE IF a[2] = 0 THEN Norm(Sgn(a[1]) * Sgn(b[1]), 0)
    ELSE Mul(a, Norm(b[2] * Sgn(b[1]), Abs(b[1])))

Add(a, b) ==
    IF IsNaN(a) \/ IsNaN(b) THEN NaN
    ELSE IF a[2] = 0 /\ b[2] = 0 THEN (IF a[1] = b[1] THEN a ELSE NaN)
    ELSE IF a[2] = 0 THEN a
    ELSE IF b[2] = 0 THEN b
    ELSE LET g == GCD(a[2], b[2])
         IN  Norm(a[1] * (b[2] \div g) + b[1] * (a[2] \div g), (a[2] \div g) * b[2])

Sub(a, b) == Add(a, Neg(b))

\* sign of a - b for comparable operands
Cmp(a, b) ==
    IF a[2] = 0 \/ b[2] = 0
    THEN (IF a[2] = 0 /\ b[2] = 0 THEN Sgn(a[1] - b[1])
          ELSE IF a[2] = 0 THEN a[1] ELSE -b[1])
    ELSE LET g == GCD(a[2], b[2])
         IN  Sgn(a[1] * (b[2] \div g) - b[1] * (a[2] \div g))

\* Python comparisons: False as soon as one operand is NaN
Lt(a, b) == ~IsNaN(a) /\ ~IsNaN(b) /\ Cmp(a, b) < 0
Le(a, b) == ~IsNaN(a) /\ ~IsNaN(b) /\ Cmp(a, b) <= 0
Gt(a, b) == Lt(b, a)
Ge(a, b) == Le(b, a)

\* signed square sign(x) * x^2
SSq(x) == Mul(x, <<Abs(x[1]), x[2]>>)

(***************************************************************************)
(* pandas / Python helpers                                                 *)
(***************************************************************************)
\* str.upper() on the ticker keys of the model
Upper(k) ==
    CASE k = "a" -> "A"
      [] k = "b" -> "B"
      [] OTHER -> k

RECURSIVE SumNums(_)
\* sum(...) of a sequence of numbers, left to right from 0
SumNums(s) ==
    IF s = <<>> THEN Zero
    ELSE IF Len(s) = 1 THEN Add(Zero, s[1])
    ELSE LET h == Len(s) \div 2
         IN  Add(SumNums(SubSeq(s, 1, h)), SumNums(SubSeq(s, h + 1, Len(s))))

RECURSIVE SetToSeq(_)
SetToSeq(S) == IF S = {} THEN <<>> ELSE LET x == CHOOSE y \in S : TRUE IN <<x>> \o SetToSeq(S \ {x})

RECURSIVE SkipNaN(_)
\* the entries of s that are not NaN, in order (skipna=True)
SkipNaN(s) ==
    IF s = <<>> THEN <<>>
    ELSE LET h == SkipNaN(SubSeq(s, 1, Len(s) - 1))
         IN  IF IsNaN(s[Len(s)]) THEN h ELSE Append(h, s[Len(s)])

\* the empty pd.Series(dtype=float)
EmptySeries == <<>>

\* DataFrame.empty: no column or no row
IsEmptyTable(prices) == prices.columns = {} \/ prices.rows = <<>>

(***************************************************************************)
(* PortfolioModel.portfolio_value_from_prices                              *)
(***************************************************************************)
initial_investment == Int2Num(10000)

\* {t.upper(): w for t, w in weights.items() if t.upper() in prices.columns}
\* a later entry with the same upper-cased key overwrites an earlier one
weights_available(prices, weights) ==
    LET keys == {Upper(weights[i][1]) : i \in DOMAIN weights} \cap prices.columns
        last(t) == CHOOSE i \in DOMAIN weights :
                      /\ Upper(weights[i][1]) = t
                      /\ \A j \in DOMAIN weights : Upper(weights[j][1]) = t => j <= i
    IN  [t \in keys |-> weights[last(t)][2]]

\* sum(weights_available.values())
total(wa) ==
    LET keys == SetToSeq(DOMAIN wa)
    IN  SumNums([i \in DOMAIN keys |-> wa[keys[i]]])

\* {t: w / total for t, w in weights_available.items()}
normalized(wa, tot) == [t \in DOMAIN wa |-> Div(wa[t], tot)]

\* prices.iloc[0]
first_prices(prices) == prices.rows[1]

\* the tickers that pass "t in first_prices and first_prices[t] > 0"
held(norm, fp) == {t \in DOMAIN norm : t \in DOMAIN fp /\ Gt(fp[t], Zero)}

\* {t: (initial_investment * w) / first_prices[t] for ... if ...}
initial_shares(norm, fp, inv) ==
    [t \in held(norm, fp) |-> Div(Mul(inv, norm[t]), fp[t])]

RECURSIVE value_at(_, _, _)
\* one date of: value = 0.0; for t, shares in initial_shares.items(): value += prices[t] * shares
value_at(row, shares, todo) ==
    IF todo = {} THEN Zero
    ELSE LET t == CHOOSE x \in todo : TRUE
         IN  Add(value_at(row, shares, todo \ {t}), Mul(row[t], shares[t]))

value_series(prices, shares) ==
    [i \in DOMAIN prices.rows |-> value_at(prices.rows[i], shares, DOMAIN shares)]

\* Series.ffill(): a missing entry takes the last entry before it that is present
ffill(s) ==
    [i \in DOMAIN s |->
        IF IsNaN(s[i]) /\ \E j \in 1..(i - 1) : ~IsNaN(s[j])
        THEN s[CHOOSE j \in 1..(i - 1) : ~IsNaN(s[j]) /\ \A k \in (j + 1)..(i - 1) : IsNaN(s[k])]
        ELSE s[i]]

\* Series.pct_change(): data / data.shift(1) - 1, the first entry NaN.
\* fill_method is "pad" (pandas < 3 default: gaps forward-filled first) or "none".
pct_change(s, fill_method) ==
    LET data == IF fill_method = "pad" THEN ffill(s) ELSE s
    IN  [i \in DOMAIN s |-> IF i = 1 THEN NaN ELSE Sub(Div(data[i], data[i - 1]), One)]

RECURSIVE dropna(_, _)
\* Series.dropna() of the first n entries, keeping the index label (date) of each
dropna(s, n) ==
    IF n = 0 THEN <<>>
    ELSE IF IsNaN(s[n]) THEN dropna(s, n - 1)
    ELSE Append(dropna(s, n - 1), [date |-> n, r |-> s[n]])

\* the values of a series, index dropped
Vals(series) == [i \in DOMAIN series |-> series[i].r]

\* return pd.Series(dtype=float), pd.Series(dtype=float)
NoResult == [value |-> EmptySeries, returns |-> EmptySeries, raised |-> FALSE]

\* the call ends in an exception instead of returning
Raised == [value |-> EmptySeries, returns |-> EmptySeries, raised |-> TRUE]

\* mutant: "if total < 0"
total_negative(tot) == Lt(tot, Zero)

\* if total <= 0
total_not_positive(tot) == Le(tot, Zero)

\* w / total divides Python floats (ZeroDivisionError on 0) and prices.iloc[0]
\* needs a row (IndexError); the guards above them keep both from happening
portfolio_value_from_prices(prices, weights, inv, fill_method) ==
    IF IsEmptyTable(prices) \/ weights = <<>> THEN NoResult
    ELSE LET wa == weights_available(prices, weights)
             tot == total(wa)
         IN  IF total_not_positive(tot) THEN NoResult
             ELSE IF tot = Zero \/ prices.rows = <<>> THEN Raised
             ELSE LET shares == initial_shares(normalized(wa, tot), first_prices(prices), inv)
                  IN  IF DOMAIN shares = {} THEN NoResult
                      ELSE LET v == value_series(prices, shares)
                           IN  [value |-> v,
                                returns |-> dropna(pct_change(v, fill_method), Len(v)),
                                raised |-> FALSE]

(***************************************************************************)
(* PortfolioModel.risk_metrics                                             *)
(***************************************************************************)
ann_factor == 252

\* Series.mean(), skipna: NaN when nothing is left
Mean(s) ==
    LET x == SkipNaN(s)
    IN  IF x = <<>> THEN NaN ELSE Div(SumNums(x), Int2Num(Len(x)))

IsConstant(x) == \A i \in DOMAIN x : x[i] = x[1]

\* IEEE-754 double rounding of Series.mean() = (x1 + ... + xn) / n on n copies of c:
\* 0.1 + 0.1 + 0.1 = 0.30000000000000004 and / 3 = 0.10000000000000002, not 0.1
\* (likewise for 6 copies); for 2, 4 or 5 copies of 0.1, and for any number of
\* copies of -0.5, 0 or 1, the computed mean is c itself
MeanRoundsOff(c, n) == c = Norm(1, 10) /\ n \in {3, 6}

\* stands for the positive squared deviation that is left when the computed mean
\* of a constant series is one ulp off (about 3e-34 for 0.1): only its sign matters
RoundingResidue == Norm(1, 1024)

\* the square of Series.std() (ddof = 1, skipna): NaN with fewer than 2 entries;
\* sum((mean - x) ** 2) / (n - 1), exact except for the rounding residue of the
\* mean of a constant series
Variance(s) ==
    LET x == SkipNaN(s)
        m == Div(SumNums(x), Int2Num(Len(x)))
        sq(v) == LET dv == Sub(m, v) IN Mul(dv, dv)
    IN  IF Len(x) <= 1 THEN NaN
        ELSE IF IsConstant(x) /\ MeanRoundsOff(x[1], Len(x)) THEN RoundingResidue
        ELSE Div(SumNums([i \in DOMAIN x |-> sq(x[i])]), Int2Num(Len(x) - 1))

\* mutant: "daily_returns.std() >= 0"
StdNotNegative(s) == Ge(Variance(s), Zero)

\* daily_returns.std() > 0, on the square
StdPositive(s) == Gt(Variance(s), Zero)

\* vol_ann = daily_returns.std() * math.sqrt(ann_factor)          (signed square)
vol_ann(daily_returns) == Mul(Variance(daily_returns), Int2Num(ann_factor))

\* rf_daily = risk_free_rate_annual / ann_factor
rf_daily(risk_free_rate_annual) == Div(risk_free_rate_annual, Int2Num(ann_factor))

\* excess = daily_returns.mean() - rf_daily
excess(daily_returns, rf) == Sub(Mean(daily_returns), rf_daily(rf))

\* sharpe = (excess / std) * sqrt(ann_factor) if std > 0 else 0.0   (signed square:
\* excess^2 * (ann_factor / std^2), the factors grouped to keep the integers small)
sharpe(daily_returns, rf) ==
    IF StdPositive(daily_returns)
    THEN Mul(SSq(excess(daily_returns, rf)), Div(Int2Num(ann_factor), Variance(daily_returns)))
    ELSE Zero

RECURSIVE downside(_)
\* daily_returns[daily_returns < 0]
downside(s) ==
    IF s = <<>> THEN <<>>
    ELSE LET h == downside(SubSeq(s, 1, Len(s) - 1))
         IN  IF Lt(s[Len(s)], Zero) THEN Append(h, s[Len(s)]) ELSE h

\* downside_dev = downside.std() * sqrt(ann_factor) if len(downside) > 0 else 0.0
\*                                                                 (signed square)
downside_dev(daily_returns) ==
    IF Len(downside(daily_returns)) > 0
    THEN Mul(Variance(downside(daily_returns)), Int2Num(ann_factor))
    ELSE Zero

\* sortino = (excess / downside_dev) * sqrt(ann_factor) if downside_dev > 0 else 0.0
\*                                                                 (signed square)
sortino(daily_returns, rf) ==
    IF Gt(downside_dev(daily_returns), Zero)
    THEN Mul(SSq(excess(daily_returns, rf)), Div(Int2Num(ann_factor), downside_dev(daily_returns)))
    ELSE Zero

RECURSIVE CumProdAcc(_, _)
\* running product of the first n entries, a NaN entry counted as 1 (skipna)
CumProdAcc(s, n) ==
    IF n = 0 THEN One
    ELSE IF IsNaN(s[n]) THEN CumProdAcc(s, n - 1)
    ELSE Mul(CumProdAcc(s, n - 1), s[n])

\* Series.cumprod(): a NaN entry stays NaN
cumprod(s) == [i \in DOMAIN s |-> IF IsNaN(s[i]) THEN NaN ELSE CumProdAcc(s, i)]

Max(a, b) == IF Cmp(a, b) >= 0 THEN a ELSE b

RECURSIVE CumMaxAcc(_, _)
\* running maximum of the first n entries, a NaN entry counted as -inf (skipna)
CumMaxAcc(s, n) ==
    IF n = 0 THEN NegInf
    ELSE IF IsNaN(s[n]) THEN CumMaxAcc(s, n - 1)
    ELSE Max(CumMaxAcc(s, n - 1), s[n])

\* Series.cummax(): a NaN entry stays NaN
cummax(s) == [i \in DOMAIN s |-> IF IsNaN(s[i]) THEN NaN ELSE CumMaxAcc(s, i)]

RECURSIVE MinAcc(_)
\* minimum of a sequence without NaN
MinAcc(x) ==
    IF Len(x) = 1 THEN x[1]
    ELSE LET m == MinAcc(SubSeq(x, 1, Len(x) - 1))
         IN  IF Cmp(x[Len(x)], m) < 0 THEN x[Len(x)] ELSE m

\* Series.min(), skipna: NaN when nothing is left
SeriesMin(s) == IF SkipNaN(s) = <<>> THEN NaN ELSE MinAcc(SkipNaN(s))

\* cum = (1 + daily_returns).cumprod()
cum(daily_returns) == cumprod([i \in DOMAIN daily_returns |-> Add(One, daily_returns[i])])

\* running_max = cum.cummax()
running_max(c) == cummax(c)

\* mutant: "drawdown = cum / running_max", the "- 1" left out
drawdown_ratio(c, rmax) == [i \in DOMAIN c |-> Div(c[i], rmax[i])]

\* drawdown = (cum / running_max) - 1
drawdown(c, rmax) == [i \in DOMAIN c |-> Sub(Div(c[i], rmax[i]), One)]

\* max_dd = drawdown.min() if not drawdown.empty else 0.0
max_dd(daily_returns) ==
    LET c == cum(daily_returns)
        dd == drawdown(c, running_max(c))
    IN  IF dd # <<>> THEN SeriesMin(dd) ELSE Zero

\* the record returned for an empty return series
EmptyMetrics ==
    [sharpe_ratio |-> Zero, sortino_ratio |-> Zero,
     volatility_annual |-> Zero, max_drawdown |-> Zero]

\* mutant: the "if daily_returns.empty" guard left out
risk_metrics_unguarded(daily_returns, risk_free_rate_annual) ==
    [sharpe_ratio |-> sharpe(daily_returns, risk_free_rate_annual),
     sortino_ratio |-> sortino(daily_returns, risk_free_rate_annual),
     volatility_annual |-> vol_ann(daily_returns),
     max_drawdown |-> max_dd(daily_returns)]

risk_metrics(daily_returns, risk_free_rate_annual) ==
    IF daily_returns = <<>> THEN EmptyMetrics
    ELSE [sharpe_ratio |-> sharpe(daily_returns, risk_free_rate_annual),
          sortino_ratio |-> sortino(daily_returns, risk_free_rate_annual),
          volatility_annual |-> vol_ann(daily_returns),
          max_drawdown |-> max_dd(daily_returns)]

(***************************************************************************)
(* PortfolioModel.annualized_return                                        *)
(***************************************************************************)
RECURSIVE IntPow(_, _)
IntPow(base, k) == IF k = 0 THEN One ELSE Mul(IntPow(base, k - 1), base)

\* base ** e for e > 0, where the power is a rational number: a whole exponent,
\* or the bases 0 and 1 (and NaN) under any exponent
Pow(base, e) ==
    CASE IsNaN(base) -> NaN
      [] ~IsNaN(base) /\ e[2] = 1 -> IntPow(base, e[1])
      [] ~IsNaN(base) /\ e[2] # 1 /\ base \in {Zero, One} -> base

\* total_return_pct / 100.0
ar_fraction(total_return_pct) == Div(total_return_pct, Int2Num(100))

\* total = 1 + total_return_pct / 100.0
ar_total(total_return_pct) == Add(One, Div(total_return_pct, Int2Num(100)))

\* 365.0 / days
ar_exponent(days) == Div(Int2Num(365), Int2Num(days))

annualized_return(total_return_pct, days) ==
    IF days <= 0 THEN Zero
    ELSE Mul(Sub(Pow(ar_total(total_return_pct), ar_exponent(days)), One), Int2Num(100))

(***************************************************************************)
(* DataModel.fetch_prices                                                  *)
(*                                                                         *)
(* A frame is [columns, index, rows]: the column labels in order, the date *)
(* of every row, and for every row a function from column label to number. *)
(* A series is a sequence of points [date, v].  The price source (yfinance)*)
(* is a record [index, close, failing, flat]: the dates of the rows it     *)
(* delivers, for every ticker it knows the Close column over these rows,   *)
(* the batches whose download raises, and whether a one-ticker download    *)
(* comes back with flat columns.                                           *)
(***************************************************************************)
batch_size == 5

\* pd.DataFrame()
EmptyFrame == [columns |-> <<>>, index |-> <<>>, rows |-> <<>>]

FrameIsEmpty(df) == df.columns = <<>> \/ df.index = <<>>

\* tickers = [t.upper() for t in tickers]
upper_tickers(tickers) == [i \in DOMAIN tickers |-> Upper(tickers[i])]

\* the batches tickers[i:i + batch_size] for i in range(0, len(tickers), batch_size)
batches(tickers) ==
    [b \in 1..((Len(tickers) + batch_size - 1) \div batch_size) |->
        SubSeq(tickers, (b - 1) * batch_size + 1,
               IF b * batch_size < Len(tickers) THEN b * batch_size ELSE Len(tickers))]

\* raw[t]["Close"]: the Close column of ticker t over the rows of the download
raw_close(t, src) == [i \in DOMAIN src.index |-> [date |-> src.index[i], v |-> src.close[t][i]]]

\* Series.dropna()
series_dropna(s) == SelectSeq(s, LAMBDA p : ~IsNaN(p.v))

\* close.loc[(close.index >= start) & (close.index <= end)]
in_range(s, start, end) == SelectSeq(s, LAMBDA p : p.date >= start /\ p.date <= end)

\* close = ticker_data["Close"].dropna() restricted to [start, end]
close_series(t, src, start, end) == in_range(series_dropna(raw_close(t, src)), start, end)

\* all_series[t] = close: a dict keeps the position of a key it already has
dict_put(all_series, t, close) ==
    IF \E i \in DOMAIN all_series : all_series[i][1] = t
    THEN [i \in DOMAIN all_series |-> IF all_series[i][1] = t THEN <<t, close>> ELSE all_series[i]]
    ELSE Append(all_series, <<t, close>>)

\* one pass of "for t in batch" over a frame with MultiIndex columns
RECURSIVE parse_multi(_, _, _, _, _)
parse_multi(all_series, batch, src, start, end) ==
    IF batch = <<>> THEN all_series
    ELSE LET t == Head(batch)
             usable == t \in DOMAIN src.close /\ src.index # <<>>
             close == IF usable THEN close_series(t, src, start, end) ELSE <<>>
         IN  parse_multi(IF close # <<>> THEN dict_put(all_series, t, close) ELSE all_series,
                         Tail(batch), src, start, end)

\* the else branch: a frame with flat columns holds the Close of batch[0]
parse_flat(all_series, batch, src, start, end) ==
    LET t == batch[1]
        close == IF t \in DOMAIN src.close THEN close_series(t, src, start, end) ELSE <<>>
    IN  IF close # <<>> THEN dict_put(all_series, t, close) ELSE all_series

\* yfinance answers with flat columns only when it was asked for one ticker
is_multi(batch, src) == ~(src.flat /\ Cardinality({batch[i] : i \in DOMAIN batch}) = 1)

\* the loop over the batches if a download that raises ended the loop
RECURSIVE fetch_batches_break(_, _, _, _, _, _)
fetch_batches_break(all_series, bs, b, src, start, end) ==
    IF b > Len(bs) \/ b \in src.failing THEN all_series
    ELSE fetch_batches_break(IF is_multi(bs[b], src)
                             THEN parse_multi(all_series, bs[b], src, start, end)
                             ELSE parse_flat(all_series, bs[b], src, start, end),
                             bs, b + 1, src, start, end)

\* the loop over the batches; a download that raises skips its batch
RECURSIVE fetch_batches(_, _, _, _, _, _)
fetch_batches(all_series, bs, b, src, start, end) ==
    IF b > Len(bs) THEN all_series
    ELSE LET after == IF b \in src.failing THEN all_series
                      ELSE IF is_multi(bs[b], src)
                           THEN parse_multi(all_series, bs[b], src, start, end)
                           ELSE parse_flat(all_series, bs[b], src, start, end)
         IN  fetch_batches(after, bs, b + 1, src, start, end)

SeriesDates(s) == [i \in DOMAIN s |-> s[i].date]
HasDuplicates(ix) == \E i, j \in DOMAIN ix : i < j /\ ix[i] = ix[j]

\* the dates of a set in ascending order
RECURSIVE SortedDates(_)
SortedDates(S) ==
    IF S = {} THEN <<>>
    ELSE LET m == CHOOSE x \in S : \A y \in S : x <= y
         IN  <<m>> \o SortedDates(S \ {m})

ValueAt(s, d) == IF \E i \in DOMAIN s : s[i].date = d
                 THEN s[CHOOSE i \in DOMAIN s : s[i].date = d].v
                 ELSE NaN

\* pd.concat(all_series.values(), axis=1): series with one and the same index
\* are put side by side; otherwise the indexes are outer-joined, which
\* raises InvalidIndexError when one of them holds a date twice
concat_raises(all_series) ==
    /\ \E i \in DOMAIN all_series : SeriesDates(all_series[i][2]) # SeriesDates(all_series[1][2])
    /\ \E i \in DOMAIN all_series : HasDuplicates(SeriesDates(all_series[i][2]))

concat(all_series) ==
    LET cols == [i \in DOMAIN all_series |-> all_series[i][1]]
        colset == {cols[i] : i \in DOMAIN cols}
        ser(t) == all_series[CHOOSE i \in DOMAIN all_series : all_series[i][1] = t][2]
        aligned == \A i \in DOMAIN all_series :
                      SeriesDates(all_series[i][2]) = SeriesDates(all_series[1][2])
        ix == IF aligned THEN SeriesDates(all_series[1][2])
              ELSE SortedDates(UNION {{all_series[i][2][k].date : k \in DOMAIN all_series[i][2]}
                                      : i \in DOMAIN all_series})
    IN  [columns |-> cols,
         index |-> ix,
         rows |-> [k \in DOMAIN ix |-> [t \in colset |->
                     IF aligned THEN ser(t)[k].v ELSE ValueAt(ser(t), ix[k])]]]

\* df.sort_index(): the row positions in ascending date order (equal dates keep their order)
RECURSIVE sort_positions(_, _)
sort_positions(ix, todo) ==
    IF todo = {} THEN <<>>
    ELSE LET m == CHOOSE i \in todo : \A j \in todo : ix[i] < ix[j] \/ (ix[i] = ix[j] /\ i <= j)
         IN  <<m>> \o sort_positions(ix, todo \ {m})

\* sort_index leaves an index that is in ascending order as it is
sort_index(df) ==
    LET ascending == \A i \in DOMAIN df.index : i = 1 \/ df.index[i - 1] <= df.index[i]
        pos == IF ascending THEN [k \in DOMAIN df.index |-> k]
               ELSE sort_positions(df.index, DOMAIN df.index)
    IN  [columns |-> df.columns,
         index |-> [k \in DOMAIN pos |-> df.index[pos[k]]],
         rows |-> [k \in DOMAIN pos |-> df.rows[pos[k]]]]

\* df.index.duplicated(keep="first"): one flag per row position of df
duplicated(ix) == [i \in DOMAIN ix |-> \E j \in DOMAIN ix : j < i /\ ix[j] = ix[i]]

\* the rows of df at the positions where keep is true
keep_positions(keep, n) == SelectSeq([i \in 1..n |-> i], LAMBDA i : keep[i])

take_rows(df, keep) ==
    LET pos == keep_positions(keep, Len(df.index))
    IN  [columns |-> df.columns,
         index |-> [k \in DOMAIN pos |-> df.index[pos[k]]],
         rows |-> [k \in DOMAIN pos |-> df.rows[pos[k]]]]

\* df.sort_index().loc[~df.index.duplicated(keep="first")]: the flags are those
\* of df before it is sorted, applied by position to the sorted frame
sort_and_drop_duplicates(df) ==
    take_rows(sort_index(df), [i \in DOMAIN df.index |-> ~duplicated(df.index)[i]])

\* df.dropna(how="all")
dropna_all(df) ==
    take_rows(df, [i \in DOMAIN df.index |->
                     \E k \in DOMAIN df.columns : ~IsNaN(df.rows[i][df.columns[k]])])

FetchRaised == [table |-> EmptyFrame, raised |-> TRUE]

\* DataModel.fetch_prices(tickers, start, end) against the source src
fetch_prices(tickers, start, end, src) ==
    IF tickers = <<>> THEN [table |-> EmptyFrame, raised |-> FALSE]
    ELSE LET all_series == fetch_batches(<<>>, batches(upper_tickers(tickers)), 1, src, start, end)
         IN  IF all_series = <<>> THEN [table |-> EmptyFrame, raised |-> FALSE]
             ELSE IF concat_raises(all_series) THEN FetchRaised
             ELSE [table |-> dropna_all(sort_and_drop_duplicates(concat(all_series))),
                   raised |-> FALSE]

(***************************************************************************)
(* Controller.optimize_page, "Run Optimization" (src/controller.py)        *)
(*                                                                         *)
(* numpy reductions do not skip NaN.  The compounded annualized return     *)
(* (prod(1 + r) ** (252 / n) - 1) * 100 is irrational or far beyond the    *)
(* integers of the checker, so a sample carries prod(1 + r) itself         *)
(* (compounded): for a fixed number of days n the annualized return is a   *)
(* strictly increasing function of it on the non-negative numbers, zero    *)
(* exactly at 1.  downside and total_vol are carried as squares.  Over a   *)
(* year of ann_factor daily returns the exponent is 1: opt_ann_return is   *)
(* the annualized return where the power is a rational number.             *)
(***************************************************************************)
frame_column(df, t) == [i \in DOMAIN df.rows |-> df.rows[i][t]]

\* DataFrame.pct_change(): column by column
frame_pct_change(df, fill_method) ==
    [columns |-> df.columns,
     index |-> df.index,
     rows |-> [i \in DOMAIN df.rows |->
                 [t \in DOMAIN df.rows[i] |-> pct_change(frame_column(df, t), fill_method)[i]]]]

\* .dropna(how="all").dropna(): the rows without a missing entry stay
frame_dropna(df) ==
    take_rows(df, [i \in DOMAIN df.index |->
                     \A k \in DOMAIN df.columns : ~IsNaN(df.rows[i][df.columns[k]])])

\* daily = prices.pct_change().dropna(how="all").dropna()
daily_of(prices, fill_method) == frame_dropna(frame_pct_change(prices, fill_method))

\* returns_matrix = daily.values: one row a day, one column a ticker
returns_matrix(daily) ==
    [d \in DOMAIN daily.rows |-> [k \in DOMAIN daily.columns |-> daily.rows[d][daily.columns[k]]]]

\* market_ret = market_prices.pct_change().dropna().values.flatten()
market_ret_of(market_prices, fill_method) ==
    LET m == daily_of(market_prices, fill_method)
    IN  IF m.columns = <<>> THEN <<>>
        ELSE [d \in DOMAIN m.rows |-> m.rows[d][m.columns[1]]]

\* W @ returns_matrix.T is defined when W has as many columns as returns_matrix
matmul_fits(ticks, daily) == ticks = Len(daily.columns)

\* one row of port_daily = W @ returns_matrix.T
port_daily_of(w, R) == [d \in DOMAIN R |-> SumNums([k \in DOMAIN w |-> Mul(w[k], R[d][k])])]

\* np.prod(1 + port_daily, axis=1)
RECURSIVE compounded(_)
compounded(r) ==
    IF r = <<>> THEN One
    ELSE IF Len(r) = 1 THEN Add(One, r[1])
    ELSE LET h == Len(r) \div 2
         IN  Mul(compounded(SubSeq(r, 1, h)), compounded(SubSeq(r, h + 1, Len(r))))

\* np.mean
np_mean(x) == Div(SumNums(x), Int2Num(Len(x)))

\* downside = np.sqrt(np.mean(np.minimum(port_daily, 0.0) ** 2, axis=1) * ann_factor) * 100  (square)
opt_downside(r) ==
    LET neg2 == [d \in DOMAIN r |-> IF Lt(r[d], Zero) \/ IsNaN(r[d]) THEN Mul(r[d], r[d]) ELSE Zero]
    IN  Mul(Mul(np_mean(neg2), Int2Num(ann_factor)), Int2Num(10000))

\* np.std(port_daily, axis=1) squared (ddof = 0), with the rounding residue of
\* the mean of a constant series as in Variance
np_var(x) ==
    LET m == np_mean(x)
        sq(v) == LET dv == Sub(v, m) IN Mul(dv, dv)
    IN  IF IsConstant(x) /\ MeanRoundsOff(x[1], Len(x)) THEN RoundingResidue
        ELSE np_mean([i \in DOMAIN x |-> sq(x[i])])

\* total_vol = np.std(port_daily, axis=1) * np.sqrt(ann_factor) * 100          (square)
opt_total_vol(r) == Mul(Mul(np_var(r), Int2Num(ann_factor)), Int2Num(10000))

\* np.maximum.accumulate: a NaN stays for the rest of the row
RECURSIVE np_cummax(_)
np_cummax(x) ==
    IF Len(x) <= 1 THEN x
    ELSE LET h == Len(x) \div 2
             left == np_cummax(SubSeq(x, 1, h))
             right == np_cummax(SubSeq(x, h + 1, Len(x)))
             m == left[h]
         IN  left \o [i \in DOMAIN right |->
                        IF IsNaN(m) \/ IsNaN(right[i]) THEN NaN ELSE Max(m, right[i])]

\* np.max
RECURSIVE np_max(_)
np_max(x) ==
    IF Len(x) = 1 THEN x[1]
    ELSE LET h == Len(x) \div 2
             m == np_max(SubSeq(x, 1, h))
             v == np_max(SubSeq(x, h + 1, Len(x)))
         IN  IF IsNaN(m) \/ IsNaN(v) THEN NaN ELSE Max(m, v)

\* cum_returns = (1 + port_daily).cumprod(axis=1)
RECURSIVE cum_returns(_)
cum_returns(r) ==
    IF Len(r) <= 1 THEN [d \in DOMAIN r |-> Add(One, r[d])]
    ELSE LET h == Len(r) \div 2
             left == cum_returns(SubSeq(r, 1, h))
             right == cum_returns(SubSeq(r, h + 1, Len(r)))
         IN  left \o [i \in DOMAIN right |-> Mul(left[h], right[i])]

\* max_drawdown = np.max(1 - (cum_returns / np.maximum.accumulate(cum_returns)), axis=1) * 100
opt_max_drawdown(r) ==
    LET c == cum_returns(r)
        peak == np_cummax(c)
    IN  Mul(np_max([d \in DOMAIN r |-> Sub(One, Div(c[d], peak[d]))]), Int2Num(100))

\* ann_returns = (np.prod(1 + port_daily, axis=1) ** (ann_factor / n) - 1) * 100
opt_ann_return(prod, n) ==
    Mul(Sub(Pow(prod, Div(Int2Num(ann_factor), Int2Num(n))), One), Int2Num(100))

\* the whole root of a whole number that is a square, by bisection
RECURSIVE IntSqrt(_, _, _)
IntSqrt(n, lo, hi) ==
    IF lo = hi THEN lo
    ELSE LET mid == (lo + hi + 1) \div 2
         IN  IF mid * mid <= n THEN IntSqrt(n, mid, hi) ELSE IntSqrt(n, lo, mid - 1)

IsSquare(n) == LET k == IntSqrt(n, 0, 46340) IN k * k = n

\* np.sqrt, where the root is a rational number
np_sqrt(x) ==
    CASE IsNaN(x) -> NaN
      [] x = PosInf -> PosInf
      [] IsFinite(x) /\ IsSquare(x[1]) /\ IsSquare(x[2]) ->
           <<IntSqrt(x[1], 0, 46340), IntSqrt(x[2], 0, 46340)>>

\* x + 1e-12 for the x the rationals of the model can follow: 1e-12 of a
\* positive figure in percent is below the last digit the comparison of
\* two objectives depends on
plus_eps(x) ==
    CASE IsNaN(x) -> NaN
      [] Gt(x, Zero) -> x

\* sortino = (ann_returns - rf_percent) / (downside + 1e-12); smp.downside is the square
opt_sortino(smp, rf_pct) ==
    Div(Sub(opt_ann_return(smp.compounded, Len(smp.port_daily)), rf_pct),
        plus_eps(np_sqrt(smp.downside)))

\* calmar = ann_returns / (max_drawdown + 1e-12)
opt_calmar(smp) ==
    Div(opt_ann_return(smp.compounded, Len(smp.port_daily)), plus_eps(smp.max_drawdown))

\* np.cov(x, y, ddof=1)[0, 1]
np_cov(x, y) ==
    LET mx == np_mean(x)
        my == np_mean(y)
    IN  Div(SumNums([i \in DOMAIN x |-> Mul(Sub(x[i], mx), Sub(y[i], my))]), Int2Num(Len(x) - 1))

\* np.var(market_ret, ddof=1)
np_var1(y) ==
    LET my == np_mean(y)
    IN  Div(SumNums([i \in DOMAIN y |-> Mul(Sub(y[i], my), Sub(y[i], my))]), Int2Num(Len(y) - 1))

\* np.cov raises when the two arrays differ in length
cov_fits(r, market_ret) == Len(r) = Len(market_ret)

\* np.cov(port_daily[i], market_ret, ddof=1)[0, 1] / np.var(market_ret, ddof=1)
opt_beta(r, market_ret) == Div(np_cov(r, market_ret), np_var1(market_ret))

\* np.abs(beta_vals - 1)
beta_distance(b) == LET dv == Sub(b, One) IN <<Abs(dv[1]), dv[2]>>

\* np.argmin: the first NaN if there is one, else the first smallest entry
np_argmin(x) ==
    IF \E i \in DOMAIN x : IsNaN(x[i])
    THEN CHOOSE i \in DOMAIN x : IsNaN(x[i]) /\ \A j \in DOMAIN x : IsNaN(x[j]) => i <= j
    ELSE CHOOSE i \in DOMAIN x : \A j \in DOMAIN x : Lt(x[i], x[j]) \/ (x[i] = x[j] /\ i <= j)

\* np.nanargmin / np.nanargmax raise on a row of NaN only
all_nan(x) == \A i \in DOMAIN x : IsNaN(x[i])

\* the "else" branch of the objectives, best_idx = 0: the first sample
first_sample(x) == 1

\* np.nanargmin: the first smallest entry among those that are not NaN
np_nanargmin(x) ==
    CHOOSE i \in DOMAIN x :
        /\ ~IsNaN(x[i])
        /\ \A j \in DOMAIN x : IsNaN(x[j]) \/ Lt(x[i], x[j]) \/ (x[i] = x[j] /\ i <= j)

\* np.nanargmax: the first largest entry among those that are not NaN
np_nanargmax(x) ==
    CHOOSE i \in DOMAIN x :
        /\ ~IsNaN(x[i])
        /\ \A j \in DOMAIN x : IsNaN(x[j]) \/ Gt(x[i], x[j]) \/ (x[i] = x[j] /\ i <= j)

(***************************************************************************)
(* Inputs of the bounded model                                             *)
(***************************************************************************)
MaxDates == 3
MaxWeights == 2
MaxReturns == 3

Rat(n, d) == Norm(n, d)

\* the price points of ticker A: missing, zero, and two positive levels
PriceVals == {NaN, Zero, Int2Num(50), Int2Num(100)}

\* ticker B trades flat at 200; it is listed from the first date ("flat"), from
\* the second date on ("late"), or misses the second date ("gap")
BProfiles == {"flat", "late", "gap"}
BPrice(profile, i) ==
    IF (profile = "late" /\ i = 1) \/ (profile = "gap" /\ i = 2) THEN NaN ELSE Int2Num(200)

OneTickerTables ==
    UNION {{[columns |-> {"A"}, rows |-> [i \in 1..n |-> [t \in {"A"} |-> a[i]]]]
            : a \in [1..n -> PriceVals]} : n \in 0..MaxDates}

TwoTickerTables ==
    UNION {{[columns |-> {"A", "B"},
             rows |-> [i \in 1..n |-> [t \in {"A", "B"} |->
                          IF t = "A" THEN ab[1][i] ELSE BPrice(ab[2], i)]]]
            : ab \in [1..n -> PriceVals] \X BProfiles} : n \in 1..MaxDates}

\* prices 100, 110, 121 of one ticker: 10% growth a day
GrowthTable ==
    [columns |-> {"A"},
     rows |-> <<[t \in {"A"} |-> Int2Num(100)], [t \in {"A"} |-> Int2Num(110)],
                [t \in {"A"} |-> Int2Num(121)]>>]

\* pd.DataFrame(): no column, no row
EmptyTable == [columns |-> {}, rows |-> <<>>]

PriceTables == OneTickerTables \cup TwoTickerTables \cup {GrowthTable, EmptyTable}

\* weight-map keys in the order they are inserted; "a" upper-cases to "A",
\* "C" is a ticker no table has
WeightKeys == <<"a", "B", "C">>
WeightVals == {Zero, One, Int2Num(3)}

WeightMaps ==
    UNION {{[i \in 1..n |-> <<WeightKeys[ks[i]], ws[i]>>]
            : ks \in {f \in [1..n -> DOMAIN WeightKeys] : \A i, j \in 1..n : i < j => f[i] < f[j]},
              ws \in [1..n -> WeightVals]} : n \in 0..MaxWeights}

\* pandas' pct_change fills gaps forward before dividing ("pad", pandas < 3)
\* or not ("none"); which one depends on the installed pandas
FillMethods == {"pad", "none"}

RetVals == {Rat(-1, 2), Zero, Rat(1, 10), One}
ReturnSeriesInputs == UNION {[1..n -> RetVals] : n \in 0..MaxReturns}

\* risk_free_rate_annual: the default 0.03 and 0
DefaultRiskFree == Rat(3, 100)
RiskFreeRates == {Zero, DefaultRiskFree}

\* total_return_pct: a total loss, losses, no change, gains, and a missing value
ReturnPcts == {NaN, Int2Num(-100), Int2Num(-50), Zero, Int2Num(10), Int2Num(25), Int2Num(100)}
\* days: negative, zero, a fifth of a year and a year
DayCounts == {-30, 0, 73, 365}

\* the ticker lists handed to fetch_prices: none, one, two, the same ticker in
\* two spellings, and six tickers (two batches)
FetchTickerLists ==
    {<<>>, <<"a">>, <<"A", "B">>, <<"A", "a">>, <<"A", "B", "C", "D", "E", "F">>}
\* [start, end] as day numbers
FetchWindows == {<<1, 2>>, <<0, 3>>}
Requests == {[tickers |-> tl, start |-> w[1], end |-> w[2]] : tl \in FetchTickerLists, w \in FetchWindows}

\* the dates of the rows the source delivers: none, the window, more than the
\* window, a date twice, and rows out of order
RawIndexes == {<<>>, <<1, 2>>, <<0, 1, 2, 3>>, <<1, 1, 2>>, <<2, 1>>, <<2, 1, 1>>}

\* the Close column of a ticker by profile: rising prices, a zero quote, a
\* missing first quote, no quote at all, a flat price, a missing second quote
\* and for the optimizer: up 10% then down 10%, and down 10% then up 10%
CloseProfiles == {"up", "zero", "gap", "nan", "flat", "late", "swing", "dip"}
CloseAt(profile, i) ==
    CASE profile = "up" -> Int2Num(100 + 10 * i)
      [] profile = "zero" -> IF i = 1 THEN Zero ELSE Int2Num(100)
      [] profile = "gap" -> IF i = 1 THEN NaN ELSE Int2Num(100)
      [] profile = "nan" -> NaN
      [] profile = "flat" -> Int2Num(200)
      [] profile = "late" -> IF i = 2 THEN NaN ELSE Int2Num(200)
      [] profile = "swing" -> IF i = 1 THEN Int2Num(100) ELSE IF i = 2 THEN Int2Num(110) ELSE Int2Num(99)
      [] profile = "dip" -> IF i = 1 THEN Int2Num(200) ELSE IF i = 2 THEN Int2Num(180) ELSE Int2Num(198)

\* what the source knows: "none" is a ticker it has no column for
AProfiles == {"none", "up", "zero", "gap", "nan"}
BProfilesOfSource == {"none", "flat", "late"}
FProfiles == {"none", "flat"}

SourceOf(ix, a, b, f, failing, flat) ==
    LET profile == [t \in {"A", "B", "C", "D", "E", "F"} |->
                       CASE t = "A" -> a [] t = "B" -> b [] t = "F" -> f [] OTHER -> "flat"]
        known == {t \in DOMAIN profile : profile[t] # "none"}
    IN  [index |-> ix,
         close |-> [t \in known |-> [i \in DOMAIN ix |-> CloseAt(profile[t], i)]],
         failing |-> failing,
         flat |-> flat]

Sources ==
    {SourceOf(ix, a, b, f, failing, flat) :
        ix \in RawIndexes, a \in AProfiles, b \in BProfilesOfSource, f \in FProfiles,
        failing \in SUBSET {1, 2}, flat \in BOOLEAN}

\* the source before anything is known about it: no row, every download fails
NoSource == [index |-> <<>>, close |-> <<>>, failing |-> {1, 2}, flat |-> FALSE]

\* how many invocations of fetch_prices a behaviour of the model follows
MaxFetches == 2

\* the ticker lists of the optimizer: one ticker, two, and one ticker twice
OptTickerLists == {<<"A">>, <<"A", "B">>, <<"A", "A">>}
\* the objectives whose selection is a comparison of rational numbers
Metrics == {"Minimum Volatility", "Beta", "Annualized Return"}
\* all seven objectives of the selectbox
AllMetrics == Metrics \cup {"Sortino Ratio", "Sharpe Ratio", "Calmar Ratio", "Sortino + Calmar"}
\* the optimizer asks for the days 0..3
OptStart == 0
OptEnd == 3

OptAProfiles == {"none", "swing", "gap"}
OptBProfiles == {"none", "flat", "late", "dip"}
SpyProfiles == {"none", "flat", "swing", "gap"}

\* the source of an optimizer run: two or three trading days, the quotes of
\* A, B and SPY, and whether the downloads fail
OptSourceOf(ix, a, b, spy, failing) ==
    LET profile == [t \in {"A", "B", "SPY"} |-> CASE t = "A" -> a [] t = "B" -> b [] OTHER -> spy]
        known == {t \in DOMAIN profile : profile[t] # "none"}
    IN  [index |-> ix,
         close |-> [t \in known |-> [i \in DOMAIN ix |-> CloseAt(profile[t], i)]],
         failing |-> failing,
         flat |-> FALSE]

OptSources ==
    {OptSourceOf(ix, a, b, spy, failing) :
        ix \in {<<1, 2>>, <<1, 2, 3>>}, a \in OptAProfiles, b \in OptBProfiles,
        spy \in SpyProfiles, failing \in {{}, {1}}}

\* the rows rng.dirichlet(np.ones(ticks)) can draw: positive weights that sum to 1
WeightRows(ticks) ==
    IF ticks = 1 THEN {<<One>>}
    ELSE {<<Rat(1, 4), Rat(3, 4)>>, <<Rat(1, 2), Rat(1, 2)>>, <<Rat(3, 4), Rat(1, 4)>>}

\* n_samples: how many rows W has at most
MaxSamples == 2

\* W = rng.dirichlet(np.ones(ticks), size=int(n_samples))
SampleMatrices(ticks) == UNION {[1..n -> WeightRows(ticks)] : n \in 1..MaxSamples}

(***************************************************************************)
(* State: the arguments and results of the calls of one script run         *)
(***************************************************************************)
VARIABLES
    pc,             \* "idle", "valued" (valuation returned), "measured" (risk_metrics returned)
    prices,         \* argument of portfolio_value_from_prices
    weights,        \* argument of portfolio_value_from_prices
    value,          \* first result of portfolio_value_from_prices
    returns,        \* second result of portfolio_value_from_prices
    raised,         \* portfolio_value_from_prices ended in an exception
    daily_returns,  \* argument of risk_metrics
    risk_free,      \* argument of risk_metrics
    metrics,        \* result of risk_metrics
    total_return_pct,   \* argument of annualized_return
    days,           \* argument of annualized_return
    annualized,     \* result of annualized_return
    fill_method,    \* what pct_change does with gaps in the installed pandas
    earlier,        \* a call of an earlier script run: function, arguments, result
    source,         \* the price source (yfinance) as it is now
    cache,          \* st.cache_data: the stored results of fetch_prices, by arguments
    request,        \* arguments of fetch_prices
    fetched,        \* result of fetch_prices
    consulted,      \* the last invocation of fetch_prices called the source
    fetches,        \* invocations of fetch_prices so far
    tickers,        \* optimize_page: the tickers to optimize over
    metric,         \* optimize_page: the objective
    opt_prices,     \* optimize_page: what fetch_prices gave for the tickers
    daily,          \* optimize_page: the daily returns of the tickers
    market_ret,     \* optimize_page: the daily returns of SPY (objective Beta)
    samples,        \* per sampled weight vector: w, port_daily and the derived figures
    rf_percent,     \* optimize_page: rf_annual * 100
    objective,      \* the objective value of every sample
    best,           \* the reported sample: best_idx and the best_* values
    outcome         \* "none", "result", "no_data" (warning shown) or "fault" (exception)

compare_vars == <<pc, prices, weights, value, returns, raised, daily_returns, risk_free, metrics,
                  total_return_pct, days, annualized, fill_method, earlier>>

NoCall == [fn |-> "none"]

fetch_vars == <<source, cache, request, fetched, consulted, fetches>>

opt_vars == <<tickers, metric, opt_prices, daily, market_ret, samples, rf_percent, objective, best,
              outcome>>

vars == <<compare_vars, fetch_vars, opt_vars>>

NoRequest == [tickers |-> <<>>, start |-> 0, end |-> 0]
NoFetch == [table |-> EmptyFrame, raised |-> FALSE]

\* nothing was fetched and nothing is cached
FetchIdle ==
    /\ cache = {}
    /\ request = NoRequest
    /\ fetched = NoFetch
    /\ consulted = FALSE
    /\ fetches = 0

NoBest == [idx |-> 0]

\* no optimization was run
OptIdle ==
    /\ tickers = <<>>
    /\ metric = "none"
    /\ opt_prices = NoFetch
    /\ daily = EmptyFrame
    /\ market_ret = <<>>
    /\ samples = <<>>
    /\ rf_percent = Zero
    /\ objective = <<>>
    /\ best = NoBest
    /\ outcome = "none"

Init ==
    /\ pc = "idle"
    /\ prices = EmptyTable
    /\ weights = <<>>
    /\ value = EmptySeries
    /\ returns = EmptySeries
    /\ raised = FALSE
    /\ daily_returns = <<>>
    /\ risk_free = DefaultRiskFree
    /\ metrics = EmptyMetrics
    /\ total_return_pct = Zero
    /\ days = 0
    /\ annualized = Zero
    /\ fill_method \in FillMethods
    /\ earlier = NoCall
    /\ source = NoSource
    /\ FetchIdle
    /\ OptIdle

\* the variables the calls of the compare page leave alone
kept_by_calls == <<fill_method, earlier>>

\* val, ret = PortfolioModel.portfolio_value_from_prices(p, w)
CallValuation(p, w) ==
    LET res == portfolio_value_from_prices(p, w, initial_investment, fill_method)
    IN  /\ prices' = p
        /\ weights' = w
        /\ value' = res.value
        /\ returns' = res.returns
        /\ raised' = res.raised
        /\ pc' = "valued"
        /\ UNCHANGED <<daily_returns, risk_free, metrics, total_return_pct, days, annualized>>
        /\ UNCHANGED kept_by_calls

\* a risk_metrics that kept its first result in a module-level variable
CallRiskMetricsOnce(r, rf) ==
    /\ daily_returns' = r
    /\ risk_free' = rf
    /\ metrics' = IF metrics = EmptyMetrics THEN risk_metrics(r, rf) ELSE metrics
    /\ pc' = "measured"
    /\ UNCHANGED <<prices, weights, value, returns, raised, total_return_pct, days, annualized>>
    /\ UNCHANGED kept_by_calls

\* risk = PortfolioModel.risk_metrics(r, rf)
CallRiskMetrics(r, rf) ==
    /\ daily_returns' = r
    /\ risk_free' = rf
    /\ metrics' = risk_metrics(r, rf)
    /\ pc' = "measured"
    /\ UNCHANGED <<prices, weights, value, returns, raised, total_return_pct, days, annualized>>
    /\ UNCHANGED kept_by_calls

\* ann_ret = PortfolioModel.annualized_return(p, d)
CallAnnualizedReturn(p, d) ==
    /\ total_return_pct' = p
    /\ days' = d
    /\ annualized' = annualized_return(p, d)
    /\ pc' = "annualized"
    /\ UNCHANGED <<prices, weights, value, returns, raised, daily_returns, risk_free, metrics>>
    /\ UNCHANGED kept_by_calls

\* val, ret = PortfolioModel.portfolio_value_from_prices(sub_prices, weights)
PortfolioValueFromPrices ==
    /\ pc = "idle"
    /\ \E p \in PriceTables, w \in WeightMaps : CallValuation(p, w)
    /\ UNCHANGED <<fetch_vars, opt_vars>>

\* compare_page: "if val.empty: continue", then risk = PortfolioModel.risk_metrics(ret)
RiskMetricsOfPortfolio ==
    /\ pc = "valued"
    /\ ~raised
    /\ value # EmptySeries
    /\ daily_returns' = Vals(returns)
    /\ risk_free' = DefaultRiskFree
    /\ metrics' = risk_metrics(Vals(returns), DefaultRiskFree)
    /\ pc' = "measured"
    /\ UNCHANGED <<prices, weights, value, returns, raised, total_return_pct, days, annualized>>
    /\ UNCHANGED kept_by_calls
    /\ UNCHANGED <<fetch_vars, opt_vars>>

\* PortfolioModel.risk_metrics(daily_returns, risk_free_rate_annual) on any series
RiskMetrics ==
    /\ pc = "idle"
    /\ \E r \in ReturnSeriesInputs, rf \in RiskFreeRates : CallRiskMetrics(r, rf)
    /\ UNCHANGED <<fetch_vars, opt_vars>>

\* PortfolioModel.annualized_return(total_ret, days)
AnnualizedReturn ==
    /\ pc = "idle"
    /\ \E p \in ReturnPcts, d \in DayCounts : CallAnnualizedReturn(p, d)
    /\ UNCHANGED <<fetch_vars, opt_vars>>

\* Streamlit reruns the script on the next interaction: the locals are gone
Rerun ==
    /\ pc # "idle"
    /\ pc' = "idle"
    /\ prices' = EmptyTable
    /\ weights' = <<>>
    /\ value' = EmptySeries
    /\ returns' = EmptySeries
    /\ raised' = FALSE
    /\ daily_returns' = <<>>
    /\ risk_free' = DefaultRiskFree
    /\ metrics' = EmptyMetrics
    /\ total_return_pct' = Zero
    /\ days' = 0
    /\ annualized' = Zero
    /\ UNCHANGED kept_by_calls
    /\ UNCHANGED <<fetch_vars, opt_vars>>

Next ==
    \/ PortfolioValueFromPrices
    \/ RiskMetricsOfPortfolio
    \/ RiskMetrics
    \/ AnnualizedReturn
    \/ Rerun

Spec == Init /\ [][Next]_vars

(***************************************************************************)
(* DataModel.fetch_prices behind st.cache_data(ttl=CACHE_TTL), against a    *)
(* source that changes between the invocations                             *)
(***************************************************************************)
CompareIdle ==
    /\ prices = EmptyTable
    /\ weights = <<>>
    /\ value = EmptySeries
    /\ returns = EmptySeries
    /\ raised = FALSE
    /\ daily_returns = <<>>
    /\ risk_free = DefaultRiskFree
    /\ metrics = EmptyMetrics
    /\ total_return_pct = Zero
    /\ days = 0
    /\ annualized = Zero

FetchInit ==
    /\ pc = "idle"
    /\ CompareIdle
    /\ fill_method = "pad"
    /\ earlier = NoCall
    /\ source \in Sources
    /\ FetchIdle
    /\ OptIdle

Cached(req) == \E e \in cache : e.key = req
CachedTable(req) == (CHOOSE e \in cache : e.key = req).table

\* prices = DataModel.fetch_prices(tickers, start_dt, end_dt): st.cache_data
\* returns the stored result of an earlier invocation with the same arguments
\* and runs the function body, storing its result, only when there is none
FetchPrices ==
    /\ pc = "idle"
    /\ fetches < MaxFetches
    /\ \E req \in Requests :
         /\ request' = req
         /\ IF Cached(req)
            THEN /\ fetched' = [table |-> CachedTable(req), raised |-> FALSE]
                 /\ consulted' = FALSE
                 /\ cache' = cache
            ELSE LET res == fetch_prices(req.tickers, req.start, req.end, source)
                 IN  /\ fetched' = res
                     /\ consulted' = TRUE
                     /\ cache' = IF res.raised THEN cache
                                 ELSE cache \cup {[key |-> req, table |-> res.table]}
    /\ fetches' = fetches + 1
    /\ pc' = "fetched"
    /\ UNCHANGED <<source, prices, weights, value, returns, raised, daily_returns, risk_free,
                   metrics, total_return_pct, days, annualized>>
    /\ UNCHANGED opt_vars
    /\ UNCHANGED kept_by_calls

\* the script run ends; the cache outlives it
ScriptEnds ==
    /\ pc = "fetched"
    /\ pc' = "idle"
    /\ request' = NoRequest
    /\ fetched' = NoFetch
    /\ consulted' = FALSE
    /\ UNCHANGED <<source, cache, fetches, prices, weights, value, returns, raised,
                   daily_returns, risk_free, metrics, total_return_pct, days, annualized>>
    /\ UNCHANGED opt_vars
    /\ UNCHANGED kept_by_calls

\* between two script runs a download starts or stops failing
SourceChanges ==
    /\ pc = "idle"
    /\ \E failing \in SUBSET {1, 2} :
         /\ failing # source.failing
         /\ source' = [source EXCEPT !.failing = failing]
    /\ UNCHANGED <<pc, cache, request, fetched, consulted, fetches, prices, weights, value,
                   returns, raised, daily_returns, risk_free, metrics, total_return_pct, days,
                   annualized>>
    /\ UNCHANGED opt_vars
    /\ UNCHANGED kept_by_calls

\* ttl=CACHE_TTL: a stored result is dropped a day after it was stored
CacheExpires ==
    /\ pc = "idle"
    /\ \E e \in cache : cache' = cache \ {e}
    /\ UNCHANGED <<pc, source, request, fetched, consulted, fetches, prices, weights, value,
                   returns, raised, daily_returns, risk_free, metrics, total_return_pct, days,
                   annualized>>
    /\ UNCHANGED opt_vars
    /\ UNCHANGED kept_by_calls

FetchNext ==
    \/ FetchPrices
    \/ ScriptEnds
    \/ SourceChanges
    \/ CacheExpires

FetchSpec == FetchInit /\ [][FetchNext]_vars

(***************************************************************************)
(* Controller.optimize_page after "Run Optimization".  The prices come     *)
(* from fetch_prices; whether st.cache_data answers or the source does,    *)
(* the table is one fetch_prices computes from some state of the source.   *)
(***************************************************************************)
\* the figures of one sampled weight vector (lines 174-179)
sample_of(w, R) ==
    LET r == port_daily_of(w, R)
    IN  [w |-> w,
         port_daily |-> r,
         compounded |-> compounded(r),
         downside |-> opt_downside(r),
         total_vol |-> opt_total_vol(r),
         max_drawdown |-> opt_max_drawdown(r)]

\* the run goes on after "if prices.empty" and "if daily.empty" (lines 158-165)
has_data(fetch, d) == ~fetch.raised /\ ~FrameIsEmpty(fetch.table) /\ ~FrameIsEmpty(d)

\* beta_vals (lines 185-188)
beta_vals_of(smp, mret) == [i \in DOMAIN smp |-> opt_beta(smp[i].port_daily, mret)]

\* objective (lines 182-213) for the objectives of Metrics and the composite
objective_of(m, smp, mret, rf_pct) ==
    CASE m = "Beta" -> beta_vals_of(smp, mret)
      [] m = "Minimum Volatility" -> [i \in DOMAIN smp |-> smp[i].total_vol]
      [] m = "Annualized Return" -> [i \in DOMAIN smp |-> smp[i].compounded]
      [] m = "Sortino + Calmar" ->
           [i \in DOMAIN smp |-> Mul(opt_sortino(smp[i], rf_pct), opt_calmar(smp[i]))]

\* best_idx (lines 189-212)
best_idx_of(m, obj) ==
    CASE m = "Beta" -> np_argmin([i \in DOMAIN obj |-> beta_distance(obj[i])])
      [] m = "Minimum Volatility" -> np_nanargmin(obj)
      [] m = "Annualized Return" -> np_nanargmax(obj)
      [] m = "Sortino + Calmar" -> np_nanargmax(obj)

\* an exception leaves the run: fetch_prices raises, W @ returns_matrix.T does
\* not fit, np.cov gets arrays of two lengths, nanargmin / nanargmax get only NaN
faults(tl, m, fetch, d, mret, obj) ==
    \/ fetch.raised
    \/ /\ has_data(fetch, d)
       /\ \/ ~matmul_fits(Len(tl), d)
          \/ m = "Beta" /\ ~cov_fits(d.index, mret)
          \/ m # "Beta" /\ all_nan(obj)

\* best_w = W[best_idx] ... best_beta = beta_vals[best_idx] if metric == "Beta" else None
best_of(tl, m, smp, obj, best_idx) ==
    [idx |-> best_idx,
     weights |-> [t \in {tl[i] : i \in DOMAIN tl} |->
                     smp[best_idx].w[CHOOSE i \in DOMAIN tl :
                                        tl[i] = t /\ \A j \in DOMAIN tl : tl[j] = t => j <= i]],
     compounded |-> smp[best_idx].compounded,
     downside |-> smp[best_idx].downside,
     vol |-> smp[best_idx].total_vol,
     dd |-> smp[best_idx].max_drawdown,
     value |-> obj[best_idx],
     beta |-> IF m = "Beta" THEN obj[best_idx] ELSE NaN]

OptInit ==
    /\ pc = "idle"
    /\ CompareIdle
    /\ fill_method \in FillMethods
    /\ earlier = NoCall
    /\ source = NoSource
    /\ FetchIdle
    /\ OptIdle

\* the body of "if st.button('Run Optimization')", lines 156-226, for the
\* tickers tl, the objective m, the dates start..end and the rate rf, against
\* the source src
Optimize(tl, m, src, start, end, rf) ==
    /\ tickers' = tl
    /\ metric' = m
    /\ source' = src
    /\ rf_percent' = Mul(rf, Int2Num(100))
    /\ opt_prices' = fetch_prices(tl, start, end, src)
    /\ daily' = IF opt_prices'.raised THEN EmptyFrame ELSE daily_of(opt_prices'.table, fill_method)
    /\ market_ret' = IF m = "Beta" /\ has_data(opt_prices', daily') /\ matmul_fits(Len(tl), daily')
                     THEN market_ret_of(fetch_prices(<<"SPY">>, start, end, src).table, fill_method)
                     ELSE <<>>
    /\ \E W \in SampleMatrices(Len(tl)) :
         /\ samples' = IF has_data(opt_prices', daily') /\ matmul_fits(Len(tl), daily')
                       THEN [i \in DOMAIN W |-> sample_of(W[i], returns_matrix(daily'))]
                       ELSE <<>>
         /\ objective' = IF samples' # <<>> /\ (m = "Beta" => cov_fits(daily'.index, market_ret'))
                         THEN objective_of(m, samples', market_ret', rf_percent')
                         ELSE <<>>
         /\ outcome' = IF faults(tl, m, opt_prices', daily', market_ret', objective') THEN "fault"
                       ELSE IF ~has_data(opt_prices', daily') THEN "no_data"
                       ELSE "result"
         /\ best' = IF outcome' = "result"
                    THEN best_of(tl, m, samples', objective', best_idx_of(m, objective'))
                    ELSE NoBest
    /\ pc' = "optimized"
    /\ UNCHANGED <<prices, weights, value, returns, raised, daily_returns, risk_free, metrics,
                   total_return_pct, days, annualized>>
    /\ UNCHANGED <<cache, request, fetched, consulted, fetches>>
    /\ UNCHANGED kept_by_calls

\* "Run Optimization" over the days 0..3
RunOptimization ==
    /\ pc = "idle"
    /\ \E tl \in OptTickerLists, m \in Metrics, src \in OptSources :
         Optimize(tl, m, src, OptStart, OptEnd, DefaultRiskFree)

\* the next script run starts from scratch
OptimizeRerun ==
    /\ pc = "optimized"
    /\ pc' = "idle"
    /\ source' = NoSource
    /\ tickers' = <<>>
    /\ metric' = "none"
    /\ opt_prices' = NoFetch
    /\ daily' = EmptyFrame
    /\ market_ret' = <<>>
    /\ samples' = <<>>
    /\ rf_percent' = Zero
    /\ objective' = <<>>
    /\ best' = NoBest
    /\ outcome' = "none"
    /\ UNCHANGED <<prices, weights, value, returns, raised, daily_returns, risk_free, metrics,
                   total_return_pct, days, annualized>>
    /\ UNCHANGED <<cache, request, fetched, consulted, fetches>>
    /\ UNCHANGED kept_by_calls

OptNext ==
    \/ RunOptimization
    \/ OptimizeRerun

OptSpec == OptInit /\ [][OptNext]_vars

(***************************************************************************)
(* "Run Optimization" with the objective Sortino + Calmar over one year of *)
(* trading days: with ann_factor daily returns the exponent ann_factor / n *)
(* is 1 and the annualized return is a rational number.  The two tickers   *)
(* stand still but for the second and the third day; every portfolio loses *)
(* on the second day only, so that its downside deviation is that loss.    *)
(***************************************************************************)
\* the trading days 0..ann_factor of the source
YearIndex == [i \in 1..(ann_factor + 1) |-> i - 1]

\* the close of a ticker on the first two days, on the day of the loss, and after
YearCloses ==
    [slide |-> <<64, 64, 56, 56>>, slip |-> <<64, 64, 60, 60>>,
     rebound |-> <<128, 128, 96, 144>>, recover |-> <<128, 128, 96, 120>>,
     climb |-> <<128, 128, 128, 144>>, dip |-> <<128, 128, 112, 140>>]

YearAProfiles == {"slide", "slip"}
YearBProfiles == {"rebound", "recover", "climb", "dip"}

YearSourceOf(a, b) ==
    LET profile == [t \in {"A", "B"} |-> IF t = "A" THEN a ELSE b]
    IN  [index |-> YearIndex,
         close |-> [t \in {"A", "B"} |->
                      [i \in DOMAIN YearIndex |->
                          Int2Num(YearCloses[profile[t]][IF i < 4 THEN i ELSE 4])]],
         failing |-> {},
         flat |-> FALSE]

YearSources == {YearSourceOf(a, b) : a \in YearAProfiles, b \in YearBProfiles}

YearInit == OptInit

\* "Run Optimization": A and B, Sortino + Calmar, one year of days
RunYearOptimization ==
    /\ pc = "idle"
    /\ \E src \in YearSources, rf \in RiskFreeRates :
         Optimize(<<"A", "B">>, "Sortino + Calmar", src, 0, ann_factor, rf)

YearNext ==
    \/ RunYearOptimization
    \/ OptimizeRerun

YearSpec == YearInit /\ [][YearNext]_vars

(***************************************************************************)
(* The three functions of PortfolioModel called again with the arguments   *)
(* of an earlier call.  compare_page calls them one after the other in one *)
(* script run, a rerun of the script calls them again: `earlier' keeps one *)
(* call of a past run (function, arguments, result) so that a later call   *)
(* with the same arguments can be set against it.                          *)
(***************************************************************************)

\* the call the script made last: function, arguments passed, values returned
ThisCall ==
    CASE pc = "valued" ->
           [fn |-> "portfolio_value_from_prices", args |-> <<prices, weights>>,
            result |-> <<value, returns, raised>>]
      [] pc = "measured" ->
           [fn |-> "risk_metrics", args |-> <<daily_returns, risk_free>>, result |-> metrics]
      [] pc = "annualized" ->
           [fn |-> "annualized_return", args |-> <<total_return_pct, days>>,
            result |-> annualized]
      [] OTHER -> NoCall

CallInit == Init

\* the calls of the first script run, on any arguments
FirstCall ==
    /\ earlier = NoCall
    /\ \/ PortfolioValueFromPrices
       \/ RiskMetricsOfPortfolio
       \/ RiskMetrics
       \/ AnnualizedReturn

\* the script run ends; its last call is the one later calls are set against
Remember ==
    /\ pc # "idle"
    /\ earlier = NoCall
    /\ earlier' = ThisCall
    /\ pc' = "idle"
    /\ prices' = EmptyTable
    /\ weights' = <<>>
    /\ value' = EmptySeries
    /\ returns' = EmptySeries
    /\ raised' = FALSE
    /\ daily_returns' = <<>>
    /\ risk_free' = DefaultRiskFree
    /\ metrics' = EmptyMetrics
    /\ total_return_pct' = Zero
    /\ days' = 0
    /\ annualized' = Zero
    /\ UNCHANGED fill_method
    /\ UNCHANGED <<fetch_vars, opt_vars>>

\* the arguments of the calls made between the two calls that are compared
OtherWeights == <<<<"a", One>>>>
OtherReturns == <<Rat(1, 10), Rat(-1, 2)>>
OtherDays == 73

\* a later run calls one of the functions on other arguments
CallBetween ==
    /\ earlier # NoCall
    /\ pc = "idle"
    /\ \/ CallValuation(GrowthTable, OtherWeights)
       \/ CallRiskMetrics(OtherReturns, Zero)
       \/ CallAnnualizedReturn(Int2Num(25), OtherDays)
    /\ UNCHANGED <<fetch_vars, opt_vars>>

\* portfolio_value_from_prices is called with the arguments of the earlier call
ValueAgain ==
    /\ earlier # NoCall
    /\ earlier.fn = "portfolio_value_from_prices"
    /\ CallValuation(earlier.args[1], earlier.args[2])
    /\ UNCHANGED <<fetch_vars, opt_vars>>

\* risk_metrics is called with the arguments of the earlier call
MeasureAgain ==
    /\ earlier # NoCall
    /\ earlier.fn = "risk_metrics"
    /\ CallRiskMetrics(earlier.args[1], earlier.args[2])
    /\ UNCHANGED <<fetch_vars, opt_vars>>

\* annualized_return is called with the arguments of the earlier call
AnnualizeAgain ==
    /\ earlier # NoCall
    /\ earlier.fn = "annualized_return"
    /\ CallAnnualizedReturn(earlier.args[1], earlier.args[2])
    /\ UNCHANGED <<fetch_vars, opt_vars>>

CallNext ==
    \/ FirstCall
    \/ Remember
    \/ CallBetween
    \/ ValueAgain
    \/ MeasureAgain
    \/ AnnualizeAgain
    \/ Rerun

CallSpec == CallInit /\ [][CallNext]_vars

(***************************************************************************)
(* portfolio_value_from_prices on weight maps that hold a ticker under two *)
(* spellings: the portfolio editor stores the keys as they were typed, and *)
(* "a" and "A" are two keys of the dict.                                   *)
(***************************************************************************)
\* "a" and "A" in either order of insertion, alone or followed by "B"
CaseWeightMaps ==
    {<<<<ks[1], ws[1]>>, <<ks[2], ws[2]>>>> :
        ks \in {<<"a", "A">>, <<"A", "a">>}, ws \in [1..2 -> WeightVals]}
    \cup
    {<<<<ks[1], ws[1]>>, <<ks[2], ws[2]>>, <<"B", ws[3]>>>> :
        ks \in {<<"a", "A">>, <<"A", "a">>}, ws \in [1..3 -> WeightVals]}

CaseInit == Init

\* val, ret = PortfolioModel.portfolio_value_from_prices(sub_prices, weights)
ValueOfCaseDuplicates ==
    /\ pc = "idle"
    /\ \E p \in PriceTables, w \in CaseWeightMaps : CallValuation(p, w)
    /\ UNCHANGED <<fetch_vars, opt_vars>>

CaseNext ==
    \/ ValueOfCaseDuplicates
    \/ Rerun

CaseSpec == CaseInit /\ [][CaseNext]_vars

(***************************************************************************)
(* Valuation claims                                                        *)
(***************************************************************************)
\* the weight map's entries, in order
WeightEntries(w) == [i \in DOMAIN w |-> w[i][2]]

\* what the last valuation computed on the way to its result
LastAvailable == weights_available(prices, weights)
LastShares ==
    initial_shares(normalized(LastAvailable, total(LastAvailable)),
                   first_prices(prices), initial_investment)
Valued == pc \in {"valued", "measured"} /\ prices # EmptyTable
HasResult == Valued /\ ~raised /\ value # EmptySeries

\* sum over the held tickers of initial_shares * first_price
InitialAllocation ==
    LET ts == SetToSeq(DOMAIN LastShares)
    IN  SumNums([i \in DOMAIN ts |-> Mul(LastShares[ts[i]], first_prices(prices)[ts[i]])])

\* C1: whenever the weight map sums to a positive number and the valuation returns
\* a result, the whole initial investment is allocated across the tickers priced
\* on the first date: the held tickers' shares * first price sum to
\* initial_investment and the value series starts at initial_investment.
C1_WholeInvestmentAllocated ==
    (HasResult /\ Gt(SumNums(WeightEntries(weights)), Zero))
        => /\ InitialAllocation = initial_investment
           /\ value[1] = initial_investment

\* C2: the valuation returns two empty series, and raises nothing, when the table
\* is empty, the weight map is empty, no upper-cased weighted ticker is a column,
\* the present tickers' weights sum to <= 0, or no present ticker has a positive
\* price on the first date.
NoOverlap == {Upper(weights[i][1]) : i \in DOMAIN weights} \cap prices.columns = {}
NoPositiveFirstPrice ==
    /\ prices.rows # <<>>
    /\ \A t \in DOMAIN LastAvailable : ~Gt(first_prices(prices)[t], Zero)
DegenerateInput ==
    \/ IsEmptyTable(prices)
    \/ weights = <<>>
    \/ NoOverlap
    \/ Le(total(LastAvailable), Zero)
    \/ NoPositiveFirstPrice
C2_DegenerateInputGivesEmptySeries ==
    (pc = "valued" /\ DegenerateInput)
        => (~raised /\ value = EmptySeries /\ returns = EmptySeries)

\* C2 witness: two present tickers are weighted, their weights sum to 0
C2_Witness_ZeroWeightSum ==
    /\ pc = "valued"
    /\ Cardinality(DOMAIN LastAvailable) = 2
    /\ total(LastAvailable) = Zero
    /\ prices.rows # <<>>
    /\ value = EmptySeries

\* the tickers the valuation holds that have a price in row i
PricedAt(i) == {t \in DOMAIN LastShares : ~IsNaN(prices.rows[i][t])}
SumPricedAt(i) ==
    LET ts == SetToSeq(PricedAt(i))
    IN  SumNums([k \in DOMAIN ts |-> Mul(LastShares[ts[k]], prices.rows[i][ts[k]])])

\* C3: on a date where one held ticker has no price and another held ticker has
\* one, the missing ticker contributes 0: the value on that date is the sum of
\* shares * price over the held tickers priced on that date.
C3_MissingPriceContributesZero ==
    HasResult =>
        \A i \in DOMAIN value :
            (PricedAt(i) # {} /\ PricedAt(i) # DOMAIN LastShares)
                => (~IsNaN(value[i]) /\ value[i] = SumPricedAt(i))

(***************************************************************************)
(* Risk-metric claims                                                      *)
(***************************************************************************)
Measured == pc = "measured" /\ ~raised
\* risk_metrics ran on the returns of the valuation in the state
MeasuredPortfolio == Measured /\ value # EmptySeries

AllPositive(v) == \A i \in DOMAIN v : IsFinite(v[i]) /\ Gt(v[i], Zero)

RECURSIVE PeakUpTo(_, _)
\* the largest of the first n values
PeakUpTo(v, n) == IF n = 1 THEN v[1] ELSE Max(PeakUpTo(v, n - 1), v[n])

\* min over the dates of value / (running peak, the first value included) - 1
ValueDrawdown(v) == MinAcc([i \in DOMAIN v |-> Sub(Div(v[i], PeakUpTo(v, i)), One)])

\* prices 100, 50, 100 of one ticker
DrawdownTable ==
    [columns |-> {"A"},
     rows |-> <<[t \in {"A"} |-> Int2Num(100)], [t \in {"A"} |-> Int2Num(50)],
                [t \in {"A"} |-> Int2Num(100)]>>]

OnlyA == <<<<"a", One>>>>

\* C4: max_drawdown is the drawdown against the running peak of the value series,
\* its first point counted as a peak: prices 100, 50, 100 with weight 1 give
\* values 10000, 5000, 10000 and max_drawdown = -0.5, and in general
\* max_drawdown = min over dates of value / max(values so far) - 1.
C4_DrawdownAgainstPeakOfValues ==
    /\ (MeasuredPortfolio /\ prices = DrawdownTable /\ weights = OnlyA)
          => /\ value = <<Int2Num(10000), Int2Num(5000), Int2Num(10000)>>
             /\ metrics.max_drawdown = Norm(-1, 2)
    /\ (MeasuredPortfolio /\ AllPositive(value))
          => metrics.max_drawdown = ValueDrawdown(value)

Defined(m) ==
    /\ ~IsNaN(m.sharpe_ratio)
    /\ ~IsNaN(m.sortino_ratio)
    /\ ~IsNaN(m.volatility_annual)
    /\ ~IsNaN(m.max_drawdown)

\* C5: for every non-empty return series, all four fields are defined numbers
\* (never NaN), and a ratio whose denominator is zero or undefined is 0.
C5_AllFieldsDefined ==
    (Measured /\ daily_returns # <<>>)
        => /\ Defined(metrics)
           /\ (~StdPositive(daily_returns) => metrics.sharpe_ratio = Zero)
           /\ (~Gt(downside_dev(daily_returns), Zero) => metrics.sortino_ratio = Zero)

\* C6: on an empty return series risk_metrics returns sharpe_ratio = sortino_ratio =
\* volatility_annual = max_drawdown = 0, whatever the risk-free rate.
C6_EmptyReturnsGiveZeroRecord ==
    (Measured /\ daily_returns = <<>>)
        => /\ metrics.sharpe_ratio = Zero
           /\ metrics.sortino_ratio = Zero
           /\ metrics.volatility_annual = Zero
           /\ metrics.max_drawdown = Zero

\* C6 witness: risk_metrics has run on an empty series with the risk-free rate 0
C6_Witness_EmptyReturnsOtherRate ==
    Measured /\ daily_returns = <<>> /\ risk_free = Zero /\ metrics = EmptyMetrics

\* C7: on a constant return series of length >= 2 (c zero, positive or negative)
\* sharpe_ratio = 0 and sortino_ratio = 0, and max_drawdown = 0 when c >= 0.
C7_ConstantReturnsGiveZeroRatios ==
    (Measured /\ Len(daily_returns) >= 2 /\ IsConstant(daily_returns)
        /\ IsFinite(daily_returns[1]))
        => /\ metrics.sharpe_ratio = Zero
           /\ metrics.sortino_ratio = Zero
           /\ (Ge(daily_returns[1], Zero) => metrics.max_drawdown = Zero)

GrowthValued ==
    /\ MeasuredPortfolio /\ prices = GrowthTable /\ weights = OnlyA
GrowthSeries ==
    /\ value = <<Int2Num(10000), Int2Num(11000), Int2Num(12100)>>
    /\ Vals(returns) = <<Norm(1, 10), Norm(1, 10)>>
    /\ daily_returns = Vals(returns)

\* C8 as stated: prices 100, 110, 121 with weight 1 give values 10000, 11000,
\* 12100, returns 0.10, 0.10, sharpe_ratio and sortino_ratio strictly positive and
\* finite, and max_drawdown = 0.
C8_Original_GrowthRatiosPositive ==
    GrowthValued
        => /\ GrowthSeries
           /\ IsFinite(metrics.sharpe_ratio) /\ Gt(metrics.sharpe_ratio, Zero)
           /\ IsFinite(metrics.sortino_ratio) /\ Gt(metrics.sortino_ratio, Zero)
           /\ metrics.max_drawdown = Zero

\* C8 (amended): prices 100, 110, 121 with weight 1 give values 10000, 11000, 12100
\* and returns 0.10, 0.10; the two returns are equal and none is negative, so
\* sharpe_ratio = 0 and sortino_ratio = 0; volatility_annual = 0, max_drawdown = 0.
C8_GrowthRatiosZero ==
    GrowthValued
        => /\ GrowthSeries
           /\ metrics.sharpe_ratio = Zero
           /\ metrics.sortino_ratio = Zero
           /\ metrics.volatility_annual = Zero
           /\ metrics.max_drawdown = Zero

\* C8 witness: the growth scenario has been valued and measured
C8_Witness_GrowthMeasured == GrowthValued /\ Len(daily_returns) = 2

\* a return series that comes from strictly positive values: every return is a
\* finite number above -1
FromPositiveValues(r) == \A i \in DOMAIN r : IsFinite(r[i]) /\ Gt(r[i], Neg(One))

\* C9: for a return series obtained from strictly positive values, max_drawdown
\* is <= 0 and >= -100.
C9_DrawdownWithinRange ==
    (Measured /\ daily_returns # <<>> /\ FromPositiveValues(daily_returns)
        /\ (value # EmptySeries => AllPositive(value)))
        => /\ Le(metrics.max_drawdown, Zero)
           /\ Ge(metrics.max_drawdown, Int2Num(-100))

\* C9 witness: a portfolio of positive values has been measured and lost value
\* from a peak
C9_Witness_RealDrawdown ==
    /\ MeasuredPortfolio /\ AllPositive(value) /\ daily_returns # <<>>
    /\ Lt(metrics.max_drawdown, Zero)

NoGaps(p) == \A i \in DOMAIN p.rows : \A t \in p.columns : ~IsNaN(p.rows[i][t])

RECURSIVE Compound(_, _, _)
\* v0 * (1 + r[1]) * ... * (1 + r[n])
Compound(v0, r, n) == IF n = 0 THEN v0 ELSE Mul(Compound(v0, r, n - 1), Add(One, r[n]))

\* C10: for a price table without gaps and a weight map with a non-empty result,
\* the return series has one point fewer than the value series, and compounding
\* it from the first value reproduces the value at every later date.
C10_CompoundingReproducesValues ==
    (HasResult /\ NoGaps(prices))
        => /\ Len(returns) = Len(value) - 1
           /\ \A i \in DOMAIN returns :
                 Compound(value[1], Vals(returns), i) = value[i + 1]

(***************************************************************************)
(* Annualization claim                                                     *)
(***************************************************************************)
Annualized == pc = "annualized"

Fetched == pc = "fetched"
Returned == Fetched /\ ~fetched.raised
\* the function body ran against the source as it is now
Computed == Returned /\ consulted

TableCell(i, k) == fetched.table.rows[i][fetched.table.columns[k]]

\* C15: every price in the table fetch_prices returns is strictly positive
\* (a source point that is zero or negative is dropped like a missing one).
C15_EveryPricePositive ==
    Returned =>
        \A i \in DOMAIN fetched.table.index, k \in DOMAIN fetched.table.columns :
            IsNaN(TableCell(i, k)) \/ Gt(TableCell(i, k), Zero)

\* the requested tickers as fetch_prices looks them up, and the batch of each
Requested == upper_tickers(request.tickers)
BatchOf(k) == ((k - 1) \div batch_size) + 1

\* the rows of the source that hold a quote of t inside [start, end]
UsablePoints(t) ==
    {i \in DOMAIN source.index :
        /\ t \in DOMAIN source.close
        /\ ~IsNaN(source.close[t][i])
        /\ source.index[i] >= request.start
        /\ source.index[i] <= request.end}

\* t was asked for in a batch whose download worked, and has a usable point
Delivered(t) ==
    /\ UsablePoints(t) # {}
    /\ \E k \in DOMAIN Requested : Requested[k] = t /\ BatchOf(k) \notin source.failing

\* the first usable quote of t on date d, in the order of the source's rows
FirstQuote(t, d) ==
    LET at == {i \in UsablePoints(t) : source.index[i] = d}
    IN  IF at = {} THEN NaN
        ELSE source.close[t][CHOOSE i \in at : \A j \in at : i <= j]

AscendingDates(ix) == \A i, j \in DOMAIN ix : i < j => ix[i] < ix[j]
DatesInRange(ix) == \A i \in DOMAIN ix : ix[i] >= request.start /\ ix[i] <= request.end
NoEmptyRow ==
    \A i \in DOMAIN fetched.table.index :
        \E k \in DOMAIN fetched.table.columns : ~IsNaN(TableCell(i, k))
\* every date some delivered ticker has a quote for is a row, and every cell
\* is the first quote of its ticker on its date (missing if there is none)
RowsKept ==
    /\ \A k \in DOMAIN fetched.table.columns :
         \A p \in UsablePoints(fetched.table.columns[k]) :
            \E i \in DOMAIN fetched.table.index : fetched.table.index[i] = source.index[p]
    /\ \A i \in DOMAIN fetched.table.index, k \in DOMAIN fetched.table.columns :
         TableCell(i, k) = FirstQuote(fetched.table.columns[k], fetched.table.index[i])

\* C16: the table of fetch_prices has strictly ascending dates without a
\* repeated date (the first occurrence is kept), every date lies in
\* [start, end], no row is missing in every column, and a row missing in only
\* some columns is kept.
C16_TableSortedUniqueInRange ==
    Computed =>
        /\ AscendingDates(fetched.table.index)
        /\ DatesInRange(fetched.table.index)
        /\ NoEmptyRow
        /\ RowsKept

\* C17: fetch_prices does not fail because a ticker has no data: the columns
\* are the requested tickers that have a usable point and whose batch was
\* downloaded, in the order they were asked for; a batch whose download raises
\* only leaves out its own tickers; an empty list or no usable ticker gives
\* the empty table.  (The only exception leaves from pd.concat, on a repeated
\* date.)
C17_MissingDataLeavesTickerOut ==
    (Fetched /\ consulted) =>
        /\ fetched.raised => HasDuplicates(source.index)
        /\ ~fetched.raised =>
              /\ {fetched.table.columns[k] : k \in DOMAIN fetched.table.columns}
                    = {t \in {Requested[k] : k \in DOMAIN Requested} : Delivered(t)}
              /\ \A j, k \in DOMAIN fetched.table.columns :
                    j < k => \E a, b \in DOMAIN Requested :
                               /\ a < b
                               /\ Requested[a] = fetched.table.columns[j]
                               /\ Requested[b] = fetched.table.columns[k]
              /\ (\A k \in DOMAIN Requested : ~Delivered(Requested[k]))
                    => fetched.table = EmptyFrame

\* the download of the first batch failed, the sixth ticker alone is delivered
C17_Witness_FailedBatchLeftOut ==
    /\ Computed
    /\ Len(request.tickers) = 6
    /\ source.failing = {1}
    /\ fetched.table.columns = <<"F">>

\* C18: fetch_prices keeps no cached state: every invocation consults the
\* source, and its result is the one the source gives now, whatever an earlier
\* invocation with the same arguments returned.
C18_EveryInvocationConsultsSource ==
    Fetched =>
        /\ consulted
        /\ fetched = fetch_prices(request.tickers, request.start, request.end, source)

(***************************************************************************)
(* Optimizer claims (OptSpec)                                              *)
(***************************************************************************)
Optimized == pc = "optimized"
HasBest == Optimized /\ outcome = "result"

\* what the run reports is what the sample at best.idx has
ReportedOfSelected ==
    /\ best.idx \in DOMAIN samples
    /\ \A k \in DOMAIN tickers : best.weights[tickers[k]] = samples[best.idx].w[k]
    /\ best.compounded = samples[best.idx].compounded
    /\ best.downside = samples[best.idx].downside
    /\ best.dd = samples[best.idx].max_drawdown
    /\ best.vol = samples[best.idx].total_vol

\* C12: with the objective Minimum Volatility the selected sample's
\* annualized volatility is <= the volatility of every sample, and the
\* reported weights, return, downside deviation and drawdown are those of the
\* selected sample.
C12_MinimumVolatilitySelected ==
    (HasBest /\ metric = "Minimum Volatility") =>
        /\ ReportedOfSelected
        /\ \A i \in DOMAIN samples : Le(best.vol, samples[i].total_vol)

\* the second of two samples is the calmer one and is selected
C12_Witness_SecondSampleCalmer ==
    /\ HasBest
    /\ metric = "Minimum Volatility"
    /\ Len(samples) = 2
    /\ Lt(samples[2].total_vol, samples[1].total_vol)
    /\ best.idx = 2

\* C13: with the objective Beta, |selected_beta - 1| <= |other_beta - 1| for
\* every other sample; when some betas are undefined the selected beta is a
\* defined one.
C13_BetaClosestToOne ==
    (HasBest /\ metric = "Beta") =>
        /\ \A i \in DOMAIN samples :
              i # best.idx => Le(beta_distance(best.beta), beta_distance(objective[i]))
        /\ (\E i \in DOMAIN samples : ~IsNaN(objective[i])) => ~IsNaN(best.beta)

\* C14: an optimizer run never ends in a fault: it ends with a result or with
\* the no-data warning, also when the source has data for only some of the
\* tickers, when a ticker is listed twice, and with the objective Beta when
\* SPY has no data or another number of days than the return matrix.
C14_OptimizerNeverFaults == Optimized => outcome # "fault"

\* the base of a denominator + 1e-12: a finite number that is not negative
Protected(x) == IsFinite(x) /\ Ge(x, Zero)

\* the objective value of sample i under objective m is a finite number
ObjectiveFinite(m, i) ==
    CASE m = "Beta" -> IsFinite(opt_beta(samples[i].port_daily, market_ret))
      [] m \in {"Sharpe Ratio"} -> IsFinite(samples[i].compounded) /\ Protected(samples[i].total_vol)
      [] m \in {"Sortino Ratio"} -> IsFinite(samples[i].compounded) /\ Protected(samples[i].downside)
      [] m \in {"Calmar Ratio"} -> IsFinite(samples[i].compounded) /\ Protected(samples[i].max_drawdown)
      [] m \in {"Sortino + Calmar"} ->
            /\ IsFinite(samples[i].compounded)
            /\ Protected(samples[i].downside)
            /\ Protected(samples[i].max_drawdown)
      [] OTHER -> IsFinite(objective[i])

\* C20: no ratio of the optimizer has a zero denominator, the Beta ratio
\* included: every sample's objective value is a finite number, also with
\* zero volatility, no negative return, zero drawdown or a constant market.
C20_EveryObjectiveFinite ==
    HasBest =>
        \A i \in DOMAIN samples :
            /\ ObjectiveFinite(metric, i)
            /\ \A m \in AllMetrics \ Metrics :
                  ObjectiveFinite(m, i)

(***************************************************************************)
(* The functions of PortfolioModel keep no state                           *)
(***************************************************************************)

\* the last call has the function and the arguments of the remembered one
Repeated ==
    /\ earlier # NoCall
    /\ pc # "idle"
    /\ ThisCall.fn = earlier.fn
    /\ ThisCall.args = earlier.args

Composite == pc = "optimized" /\ metric = "Sortino + Calmar" /\ outcome = "result"

\* ann_returns[i] of the run
AnnReturnOf(i) == opt_ann_return(samples[i].compounded, Len(samples[i].port_daily))

\* sample i has a positive Sortino ratio and a positive Calmar ratio
BothPositive(i) ==
    /\ Gt(opt_sortino(samples[i], rf_percent), Zero)
    /\ Gt(opt_calmar(samples[i]), Zero)

\* sample i has a negative Sortino ratio and a negative Calmar ratio
BothNegative(i) ==
    /\ Lt(opt_sortino(samples[i], rf_percent), Zero)
    /\ Lt(opt_calmar(samples[i]), Zero)

\* C21: with the objective Sortino + Calmar, whenever some sample has a
\* positive Sortino ratio and a positive Calmar ratio, the sample that is
\* selected has a non-negative annualized return: a sample whose two ratios
\* are negative is never selected over it.
C21_CompositeSelectsNoLosingSample ==
    (Composite /\ \E i \in DOMAIN samples : BothPositive(i))
        => /\ Ge(AnnReturnOf(best.idx), Zero)
           /\ ~BothNegative(best.idx)

(***************************************************************************)
(* Weight keys that differ in letter case only                             *)
(***************************************************************************)
\* the weight map holds ticker t under two keys
SpelledTwice(t) ==
    \E i, j \in DOMAIN weights :
        /\ weights[i][1] # weights[j][1]
        /\ Upper(weights[i][1]) = t
        /\ Upper(weights[j][1]) = t

\* the sum of the entries of the weight map whose key upper-cases to t
EntriesOf(t) ==
    LET sel == SelectSeq(weights, LAMBDA e : Upper(e[1]) = t)
    IN  SumNums([i \in DOMAIN sel |-> sel[i][2]])

\* C22: in portfolio_value_from_prices, when the weight map has two keys
\* that differ in letter case only and the upper-cased ticker is a column of
\* the price table, the weight used for the ticker is the sum of both entries.
C22_CaseDuplicatesAreSummed ==
    \A t \in prices.columns :
        (Valued /\ ~IsEmptyTable(prices) /\ SpelledTwice(t)) => LastAvailable[t] = EntriesOf(t)

====
